---- MODULE Spec2Model ----
(***************************************************************************)
(* Model of the queue-booking backend in src/server.js: the booking ledger *)
(* (table bookings), the REST handlers and their sqlite callbacks, and the *)
(* LINE push notifications.  Every sqlite statement is executed by the     *)
(* database between the handler that submits it and the callback that      *)
(* receives its result, so each statement is a step of its own.            *)
(***************************************************************************)
EXTENDS Integers, Sequences, FiniteSets, TLC

\* ---------------------------------------------------------------- bounds
\* number of POST /api/book requests of a run
MaxReq == 2

Reqs == 1..MaxReq

\* ------------------------------------------------------- program constants
TIME_SLOTS ==
  << "09:00", "09:30", "10:00", "10:30", "11:00", "11:30",
     "13:00", "13:30", "14:00", "14:30", "15:00", "15:30", "16:00" >>

CAPACITY_PER_SLOT == 1

\* ------------------------------------------------------------------ inputs
\* a field absent from the JSON body / query string (JS undefined)
Missing == "<undefined>"

\* JS falsiness of a body field that is a string or absent: !x
Falsy(x) == x \in {Missing, ""}

\* the request bodies of POST /api/book drawn by the model: bodies of two
\* users that pass the required-field test, on two dates, on catalog times
\* and on a time outside the catalog, and bodies with one required field
\* absent or empty
ValidBodies ==
  { [lineUserId |-> "U1", name |-> "Ann", date |-> "2024-01-01",
     time |-> "09:00", note |-> Missing],
    [lineUserId |-> "U2", name |-> "Bob", date |-> "2024-01-01",
     time |-> "09:00", note |-> ""],
    [lineUserId |-> "U2", name |-> "Bob", date |-> "2024-01-01",
     time |-> "23:45", note |-> Missing],
    [lineUserId |-> "U1", name |-> "Ann", date |-> "2024-01-02",
     time |-> "09:30", note |-> "hi"] }

InvalidBodies ==
  { [lineUserId |-> Missing, name |-> "Ann", date |-> "2024-01-01",
     time |-> "09:00", note |-> Missing],
    [lineUserId |-> "U1", name |-> "", date |-> "2024-01-01",
     time |-> "09:00", note |-> Missing],
    [lineUserId |-> "U1", name |-> "Ann", date |-> "",
     time |-> "09:00", note |-> "hi"],
    [lineUserId |-> "U1", name |-> "Ann", date |-> "2024-01-01",
     time |-> Missing, note |-> Missing] }

Bodies == ValidBodies \cup InvalidBodies

\* the date parameters of GET /api/slots drawn by the model
SlotDates == {Missing, "2024-01-01"}

\* the lineUserId parameters of GET /api/my-bookings drawn by the model
MyUsers == {Missing, "U1"}

\* a message text is a sequence of characters.  MY_QUEUE_TEXT stands for the
\* characters of the Thai command text that handleLineEvent compares with
MY_QUEUE_TEXT == << "q", "u", "e", "u", "e" >>

\* the webhook events drawn by the model: an event that is no message, a
\* message that is no text, and text messages of user U1: the command with
\* white space around it, the command twice, and another text
LineEvents ==
  { [type |-> "follow", msgType |-> Missing, text |-> << >>, userId |-> "U1"],
    [type |-> "message", msgType |-> "image", text |-> << >>, userId |-> "U1"] }
  \cup
  { [type |-> "message", msgType |-> "text", text |-> t, userId |-> "U1"] :
      t \in { << " " >> \o MY_QUEUE_TEXT \o << " ", "\n" >>,
              MY_QUEUE_TEXT \o << " " >> \o MY_QUEUE_TEXT,
              << "h", "i", " " >> } }

\* -------------------------------------------------------------------- state
VARIABLES
  ledger,     \* rows of table bookings, in insertion order
  lastSeq,    \* AUTOINCREMENT sequence of table bookings
  req,        \* the POST /api/book requests: position, body, results, response
  pushes,     \* lineClient.pushMessage calls made so far and their promises
  slotsReq,   \* the GET /api/slots request
  storeCalls, \* history: statements each booking request submitted to the db
  rowReq,     \* history: rowReq[i] is the request that inserted ledger[i]
  myReq,      \* the GET /api/my-bookings request
  lineEv      \* the LINE webhook event given to handleLineEvent

vars == << ledger, lastSeq, req, pushes, slotsReq, storeCalls, rowReq, myReq, lineEv >>

NoBooking ==
  [id |-> 0, lineUserId |-> "", name |-> "", date |-> "", time |-> "",
   note |-> "", status |-> ""]

NoResp == [status |-> 0, error |-> "", booking |-> NoBooking]

NoBody ==
  [lineUserId |-> Missing, name |-> Missing, date |-> Missing,
   time |-> Missing, note |-> Missing]

\* nresp and fullAtStart are history fields: the number of responses sent,
\* and whether the slot asked for was full when the request arrived
IdleReq ==
  [pc |-> "idle", body |-> NoBody, err |-> FALSE, count |-> 0, lastID |-> 0,
   resp |-> NoResp, nresp |-> 0, fullAtStart |-> FALSE]

\* seen is a history field: the number of ledger rows the query read
IdleSlots ==
  [pc |-> "idle", date |-> Missing, err |-> FALSE, rows |-> << >>, seen |-> 0,
   status |-> 0, slots |-> << >>]

\* seen is a history field: the number of ledger rows the query read
IdleMy ==
  [pc |-> "idle", lineUserId |-> Missing, err |-> FALSE, seen |-> 0,
   status |-> 0, rows |-> << >>]

\* the event before it arrives.  replies are the replyMessage calls made,
\* result is the state of the promise handleLineEvent returned; queries
\* (the db.all calls made) and seen are history fields
NoEvent == [type |-> Missing, msgType |-> Missing, text |-> << >>,
            userId |-> Missing]

IdleLine ==
  [pc |-> "idle", event |-> NoEvent, err |-> FALSE, rows |-> << >>,
   replies |-> << >>, result |-> "none", queries |-> 0, seen |-> 0]

Init ==
  /\ ledger = << >>
  /\ lastSeq = 0
  /\ req = [r \in Reqs |-> IdleReq]
  /\ pushes = << >>
  /\ slotsReq = IdleSlots
  /\ storeCalls = [r \in Reqs |-> [count |-> 0, insert |-> 0]]
  /\ rowReq = << >>
  /\ myReq = IdleMy
  /\ lineEv = IdleLine

\* ---------------------------------------------------------------- the store
\* SELECT COUNT(*) as count FROM bookings WHERE date = ? AND time = ?
CountRows(d, t) ==
  Cardinality({ i \in 1..Len(ledger) : ledger[i].date = d /\ ledger[i].time = t })

\* the row INSERT INTO bookings (...) VALUES (?,?,?,?,?,?) adds: id from the
\* AUTOINCREMENT sequence, status from the column default.  createdAt, a
\* wall-clock string that no statement and no handler reads, is left out.
NewRow(b) ==
  [id |-> lastSeq + 1, lineUserId |-> b.lineUserId, name |-> b.name,
   date |-> b.date, time |-> b.time,
   note |-> IF Falsy(b.note) THEN "" ELSE b.note, status |-> "CONFIRMED"]

\* ------------------------------------------------------- POST /api/book
\* the required-field test with the name test left out
InvalidNoName(b) ==
  Falsy(b.lineUserId) \/ Falsy(b.date) \/ Falsy(b.time)

\* the required-field test of the handler
Invalid(b) ==
  Falsy(b.lineUserId) \/ Falsy(b.name) \/ Falsy(b.date) \/ Falsy(b.time)

\* the handler: validate, then submit the count query
Book(r, b) ==
  /\ req[r].pc = "idle"
  /\ \A q \in Reqs : q < r => req[q].pc # "idle"
  /\ IF Invalid(b)
       THEN /\ req' = [req EXCEPT ![r].pc = "done", ![r].nresp = @ + 1,
                          ![r].body = b,
                          ![r].fullAtStart =
                             CountRows(b.date, b.time) >= CAPACITY_PER_SLOT,
                          ![r].resp = [NoResp EXCEPT !.status = 400,
                             !.error = "lineUserId, name, date, time are required"]]
            /\ UNCHANGED storeCalls
       ELSE /\ req' = [req EXCEPT ![r].pc = "count", ![r].body = b,
                          ![r].fullAtStart =
                             CountRows(b.date, b.time) >= CAPACITY_PER_SLOT]
            /\ storeCalls' = [storeCalls EXCEPT ![r].count = @ + 1]
  /\ UNCHANGED << ledger, lastSeq, pushes, slotsReq, rowReq, myReq, lineEv >>

\* the count query without the time in its WHERE clause
CountExecByDate(r) ==
  /\ req[r].pc = "count"
  /\ \/ req' = [req EXCEPT ![r].pc = "countCb", ![r].err = TRUE]
     \/ req' = [req EXCEPT ![r].pc = "countCb", ![r].err = FALSE,
                   ![r].count = Cardinality({ i \in 1..Len(ledger) :
                                      ledger[i].date = req[r].body.date })]
  /\ UNCHANGED << ledger, lastSeq, pushes, slotsReq, storeCalls, rowReq, myReq, lineEv >>

\* the database runs the count query: it fails or yields row.count
CountExec(r) ==
  /\ req[r].pc = "count"
  /\ \/ req' = [req EXCEPT ![r].pc = "countCb", ![r].err = TRUE]
     \/ req' = [req EXCEPT ![r].pc = "countCb", ![r].err = FALSE,
                   ![r].count = CountRows(req[r].body.date, req[r].body.time)]
  /\ UNCHANGED << ledger, lastSeq, pushes, slotsReq, storeCalls, rowReq, myReq, lineEv >>

\* the count callback with the return of the 409 branch left out: it answers
\* 409 and goes on to submit the INSERT
CountCallbackFallsThrough(r) ==
  /\ req[r].pc = "countCb"
  /\ IF req[r].err
       THEN /\ req' = [req EXCEPT ![r].pc = "done", ![r].nresp = @ + 1,
                          ![r].resp = [NoResp EXCEPT !.status = 500,
                                                     !.error = "db error"]]
            /\ UNCHANGED storeCalls
       ELSE /\ req' = [req EXCEPT ![r].pc = "insert",
                          ![r].nresp = IF req[r].count >= CAPACITY_PER_SLOT
                                         THEN @ + 1 ELSE @,
                          ![r].resp = IF req[r].count >= CAPACITY_PER_SLOT
                                        THEN [NoResp EXCEPT !.status = 409,
                                                            !.error = "slot is full"]
                                        ELSE req[r].resp]
            /\ storeCalls' = [storeCalls EXCEPT ![r].insert = @ + 1]
  /\ UNCHANGED << ledger, lastSeq, pushes, slotsReq, rowReq, myReq, lineEv >>

\* the count callback with the capacity test written as >
CountCallbackOffByOne(r) ==
  /\ req[r].pc = "countCb"
  /\ IF req[r].err
       THEN /\ req' = [req EXCEPT ![r].pc = "done", ![r].nresp = @ + 1,
                          ![r].resp = [NoResp EXCEPT !.status = 500,
                                                     !.error = "db error"]]
            /\ UNCHANGED storeCalls
       ELSE IF req[r].count > CAPACITY_PER_SLOT
         THEN /\ req' = [req EXCEPT ![r].pc = "done", ![r].nresp = @ + 1,
                            ![r].resp = [NoResp EXCEPT !.status = 409,
                                                       !.error = "slot is full"]]
              /\ UNCHANGED storeCalls
         ELSE /\ req' = [req EXCEPT ![r].pc = "insert"]
              /\ storeCalls' = [storeCalls EXCEPT ![r].insert = @ + 1]
  /\ UNCHANGED << ledger, lastSeq, pushes, slotsReq, rowReq, myReq, lineEv >>

\* callback of the count query
CountCallback(r) ==
  /\ req[r].pc = "countCb"
  /\ IF req[r].err
       THEN /\ req' = [req EXCEPT ![r].pc = "done", ![r].nresp = @ + 1,
                          ![r].resp = [NoResp EXCEPT !.status = 500,
                                                     !.error = "db error"]]
            /\ UNCHANGED storeCalls
       ELSE IF req[r].count >= CAPACITY_PER_SLOT
         THEN /\ req' = [req EXCEPT ![r].pc = "done", ![r].nresp = @ + 1,
                            ![r].resp = [NoResp EXCEPT !.status = 409,
                                                       !.error = "slot is full"]]
              /\ UNCHANGED storeCalls
         ELSE /\ req' = [req EXCEPT ![r].pc = "insert"]
              /\ storeCalls' = [storeCalls EXCEPT ![r].insert = @ + 1]
  /\ UNCHANGED << ledger, lastSeq, pushes, slotsReq, rowReq, myReq, lineEv >>

\* the INSERT as INSERT OR REPLACE over a key (date, time): a row of the same
\* slot is replaced by the new one
InsertExecReplaces(r) ==
  /\ req[r].pc = "insert"
  /\ \/ /\ req' = [req EXCEPT ![r].pc = "insertCb", ![r].err = TRUE]
        /\ UNCHANGED << ledger, lastSeq, rowReq >>
     \/ /\ LET same == { i \in 1..Len(ledger) :
                           /\ ledger[i].date = req[r].body.date
                           /\ ledger[i].time = req[r].body.time }
           IN  IF same = {}
                 THEN /\ ledger' = Append(ledger, NewRow(req[r].body))
                      /\ rowReq' = Append(rowReq, r)
                 ELSE /\ ledger' = [i \in 1..Len(ledger) |->
                                      IF i \in same THEN NewRow(req[r].body)
                                                    ELSE ledger[i]]
                      /\ rowReq' = [i \in 1..Len(ledger) |->
                                      IF i \in same THEN r ELSE rowReq[i]]
        /\ lastSeq' = lastSeq + 1
        /\ req' = [req EXCEPT ![r].pc = "insertCb", ![r].err = FALSE,
                      ![r].lastID = lastSeq + 1]
  /\ UNCHANGED << pushes, slotsReq, storeCalls, myReq, lineEv >>

\* the database runs the INSERT: it fails and adds nothing, or adds the row
InsertExec(r) ==
  /\ req[r].pc = "insert"
  /\ \/ /\ req' = [req EXCEPT ![r].pc = "insertCb", ![r].err = TRUE]
        /\ UNCHANGED << ledger, lastSeq, rowReq >>
     \/ /\ ledger' = Append(ledger, NewRow(req[r].body))
        /\ lastSeq' = lastSeq + 1
        /\ rowReq' = Append(rowReq, r)
        /\ req' = [req EXCEPT ![r].pc = "insertCb", ![r].err = FALSE,
                      ![r].lastID = lastSeq + 1]
  /\ UNCHANGED << pushes, slotsReq, storeCalls, myReq, lineEv >>

\* the confirmation pushed to LINE, built from the request and this.lastID
PushOf(r) ==
  [to |-> req[r].body.lineUserId, name |-> req[r].body.name,
   date |-> req[r].body.date, time |-> req[r].body.time,
   bookingId |-> req[r].lastID, req |-> r, state |-> "pending"]

\* the 201 body with the id read from the table's sequence when the callback
\* runs instead of this.lastID
CreatedFromSequence(r) ==
  [id |-> lastSeq, lineUserId |-> req[r].body.lineUserId,
   name |-> req[r].body.name, date |-> req[r].body.date,
   time |-> req[r].body.time,
   note |-> IF Falsy(req[r].body.note) THEN "" ELSE req[r].body.note,
   status |-> "CONFIRMED"]

\* the 201 body
Created(r) ==
  [id |-> req[r].lastID, lineUserId |-> req[r].body.lineUserId,
   name |-> req[r].body.name, date |-> req[r].body.date,
   time |-> req[r].body.time,
   note |-> IF Falsy(req[r].body.note) THEN "" ELSE req[r].body.note,
   status |-> "CONFIRMED"]

\* the INSERT callback pushing the confirmation before it looks at err2
InsertCallbackNotifyFirst(r) ==
  /\ req[r].pc = "insertCb"
  /\ pushes' = Append(pushes, PushOf(r))
  /\ IF req[r].err
       THEN req' = [req EXCEPT ![r].pc = "done", ![r].nresp = @ + 1,
                       ![r].resp = [NoResp EXCEPT !.status = 500,
                                                  !.error = "db error"]]
       ELSE req' = [req EXCEPT ![r].pc = "done", ![r].nresp = @ + 1,
                       ![r].resp = [NoResp EXCEPT !.status = 201,
                                                  !.booking = Created(r)]]
  /\ UNCHANGED << ledger, lastSeq, slotsReq, storeCalls, rowReq, myReq, lineEv >>

\* the INSERT callback submitting the INSERT again when it failed
InsertCallbackRetry(r) ==
  /\ req[r].pc = "insertCb"
  /\ IF req[r].err
       THEN /\ req' = [req EXCEPT ![r].pc = "insert"]
            /\ storeCalls' = [storeCalls EXCEPT ![r].insert = @ + 1]
            /\ storeCalls[r].insert < 2
            /\ UNCHANGED pushes
       ELSE /\ pushes' = Append(pushes, PushOf(r))
            /\ req' = [req EXCEPT ![r].pc = "done", ![r].nresp = @ + 1,
                          ![r].resp = [NoResp EXCEPT !.status = 201,
                                                     !.booking = Created(r)]]
            /\ UNCHANGED storeCalls
  /\ UNCHANGED << ledger, lastSeq, slotsReq, rowReq, myReq, lineEv >>

\* the INSERT callback without the err2 test
InsertCallbackIgnoresError(r) ==
  /\ req[r].pc = "insertCb"
  /\ pushes' = Append(pushes, PushOf(r))
  /\ req' = [req EXCEPT ![r].pc = "done", ![r].nresp = @ + 1,
                ![r].resp = [NoResp EXCEPT !.status = 201,
                                           !.booking = Created(r)]]
  /\ UNCHANGED << ledger, lastSeq, slotsReq, storeCalls, rowReq, myReq, lineEv >>

\* the INSERT callback that logs err2 and returns without answering
InsertCallbackSilentOnError(r) ==
  /\ req[r].pc = "insertCb"
  /\ IF req[r].err
       THEN /\ req' = [req EXCEPT ![r].pc = "lost"]
            /\ UNCHANGED pushes
       ELSE /\ pushes' = Append(pushes, PushOf(r))
            /\ req' = [req EXCEPT ![r].pc = "done", ![r].nresp = @ + 1,
                          ![r].resp = [NoResp EXCEPT !.status = 201,
                                                     !.booking = Created(r)]]
  /\ UNCHANGED << ledger, lastSeq, slotsReq, storeCalls, rowReq, myReq, lineEv >>

\* callback of the INSERT
InsertCallback(r) ==
  /\ req[r].pc = "insertCb"
  /\ IF req[r].err
       THEN /\ req' = [req EXCEPT ![r].pc = "done", ![r].nresp = @ + 1,
                          ![r].resp = [NoResp EXCEPT !.status = 500,
                                                     !.error = "db error"]]
            /\ UNCHANGED pushes
       ELSE /\ pushes' = Append(pushes, PushOf(r))
            /\ req' = [req EXCEPT ![r].pc = "done", ![r].nresp = @ + 1,
                          ![r].resp = [NoResp EXCEPT !.status = 201,
                                                     !.booking = Created(r)]]
  /\ UNCHANGED << ledger, lastSeq, slotsReq, storeCalls, rowReq, myReq, lineEv >>

\* the promise of a pushMessage call resolves
PushResolve(i) ==
  /\ i \in 1..Len(pushes)
  /\ pushes[i].state = "pending"
  /\ pushes' = [pushes EXCEPT ![i].state = "ok"]
  /\ UNCHANGED << ledger, lastSeq, req, slotsReq, storeCalls, rowReq, myReq, lineEv >>

\* a rejected push turned into the answer of its request
PushRejectPropagates(i) ==
  /\ i \in 1..Len(pushes)
  /\ pushes[i].state = "pending"
  /\ pushes' = [pushes EXCEPT ![i].state = "failed"]
  /\ req' = [req EXCEPT ![pushes[i].req].nresp = @ + 1,
                ![pushes[i].req].resp =
                  [NoResp EXCEPT !.status = 500, !.error = "db error"]]
  /\ UNCHANGED << ledger, lastSeq, slotsReq, storeCalls, rowReq, myReq, lineEv >>

\* a rejected push sent once more by the .catch handler
PushRejectRetries(i) ==
  /\ i \in 1..Len(pushes)
  /\ pushes[i].state = "pending"
  /\ pushes' = IF Cardinality({ k \in 1..Len(pushes) :
                                  pushes[k].req = pushes[i].req }) < 2
                 THEN Append([pushes EXCEPT ![i].state = "failed"],
                             [pushes[i] EXCEPT !.state = "pending"])
                 ELSE [pushes EXCEPT ![i].state = "failed"]
  /\ UNCHANGED << ledger, lastSeq, req, slotsReq, storeCalls, rowReq, myReq, lineEv >>

\* the promise of a pushMessage call rejects: .catch logs the error
PushReject(i) ==
  /\ i \in 1..Len(pushes)
  /\ pushes[i].state = "pending"
  /\ pushes' = [pushes EXCEPT ![i].state = "failed"]
  /\ UNCHANGED << ledger, lastSeq, req, slotsReq, storeCalls, rowReq, myReq, lineEv >>

\* ------------------------------------------------------- GET /api/slots
\* SELECT time, COUNT(*) as count FROM bookings WHERE date = ? GROUP BY time
\* (bookedMap is keyed by time, so the rows are kept as that map)
GroupByTime(d) ==
  LET ts == { ledger[i].time : i \in { j \in 1..Len(ledger) : ledger[j].date = d } }
  IN  [t \in ts |->
         Cardinality({ i \in 1..Len(ledger) :
                         ledger[i].date = d /\ ledger[i].time = t })]

\* the view with isFull computed as available < 0
SlotsViewStrict(bookedMap) ==
  [k \in 1..Len(TIME_SLOTS) |->
     LET t == TIME_SLOTS[k]
         used == IF t \in DOMAIN bookedMap THEN bookedMap[t] ELSE 0
         available == CAPACITY_PER_SLOT - used
     IN  [time |-> t, capacity |-> CAPACITY_PER_SLOT, booked |-> used,
          available |-> available, isFull |-> available < 0]]

\* TIME_SLOTS.map(t => {...}) over bookedMap
SlotsView(bookedMap) ==
  [k \in 1..Len(TIME_SLOTS) |->
     LET t == TIME_SLOTS[k]
         used == IF t \in DOMAIN bookedMap THEN bookedMap[t] ELSE 0
         available == CAPACITY_PER_SLOT - used
     IN  [time |-> t, capacity |-> CAPACITY_PER_SLOT, booked |-> used,
          available |-> available, isFull |-> available <= 0]]

\* the handler
GetSlots(d) ==
  /\ slotsReq.pc = "idle"
  /\ IF Falsy(d)
       THEN slotsReq' = [slotsReq EXCEPT !.pc = "done", !.date = d, !.status = 400]
       ELSE slotsReq' = [slotsReq EXCEPT !.pc = "query", !.date = d]
  /\ UNCHANGED << ledger, lastSeq, req, pushes, storeCalls, rowReq, myReq, lineEv >>

\* the database runs the GROUP BY query
SlotsExec ==
  /\ slotsReq.pc = "query"
  /\ \/ slotsReq' = [slotsReq EXCEPT !.pc = "cb", !.err = TRUE]
     \/ slotsReq' = [slotsReq EXCEPT !.pc = "cb", !.err = FALSE,
                                     !.rows = GroupByTime(slotsReq.date),
                                     !.seen = Len(ledger)]
  /\ UNCHANGED << ledger, lastSeq, req, pushes, storeCalls, rowReq, myReq, lineEv >>

\* callback of the GROUP BY query
SlotsCallback ==
  /\ slotsReq.pc = "cb"
  /\ IF slotsReq.err
       THEN slotsReq' = [slotsReq EXCEPT !.pc = "done", !.status = 500]
       ELSE slotsReq' = [slotsReq EXCEPT !.pc = "done", !.status = 200,
                                         !.slots = SlotsView(slotsReq.rows)]
  /\ UNCHANGED << ledger, lastSeq, req, pushes, storeCalls, rowReq, myReq, lineEv >>

\* ------------------------------------------------- GET /api/my-bookings
\* the date and time strings of the model in the byte order sqlite compares
\* TEXT values by (BINARY collation)
StrOrder ==
  << "09:00", "09:30", "10:00", "10:30", "11:00", "11:30",
     "13:00", "13:30", "14:00", "14:30", "15:00", "15:30", "16:00",
     "2024-01-01", "2024-01-02", "23:45" >>

StrRank(x) == CHOOSE k \in 1..Len(StrOrder) : StrOrder[k] = x

\* the comparison of ORDER BY date, time: -1, 0 or 1
CompareKey(a, b) ==
  IF StrRank(a.date) < StrRank(b.date) THEN -1
  ELSE IF StrRank(a.date) > StrRank(b.date) THEN 1
  ELSE IF StrRank(a.time) < StrRank(b.time) THEN -1
  ELSE IF StrRank(a.time) > StrRank(b.time) THEN 1
  ELSE 0

\* row b put into the sorted rows: before the first row that compares greater,
\* and, SQL leaving the order of equal keys open, before or after its equals
RECURSIVE InsertRow(_, _, _)
InsertRow(b, sorted, tiesAfter) ==
  IF sorted = << >> THEN << b >>
  ELSE LET c == CompareKey(b, Head(sorted))
       IN  IF c < 0 \/ (c = 0 /\ ~tiesAfter)
             THEN << b >> \o sorted
             ELSE << Head(sorted) >> \o InsertRow(b, Tail(sorted), tiesAfter)

RECURSIVE SortRows(_, _)
SortRows(rows, tiesAfter) ==
  IF rows = << >> THEN << >>
  ELSE InsertRow(rows[Len(rows)],
                 SortRows(SubSeq(rows, 1, Len(rows) - 1), tiesAfter),
                 tiesAfter)

\* WHERE lineUserId = ? without the ORDER BY: the rows in insertion order
ListByUserUnordered(u, tiesAfter) ==
  SelectSeq(ledger, LAMBDA b : b.lineUserId = u)

\* SELECT * FROM bookings WHERE lineUserId = ? ORDER BY date, time
ListByUser(u, tiesAfter) ==
  SortRows(SelectSeq(ledger, LAMBDA b : b.lineUserId = u), tiesAfter)

\* the handler
GetMyBookings(u) ==
  /\ myReq.pc = "idle"
  /\ IF Falsy(u)
       THEN myReq' = [myReq EXCEPT !.pc = "done", !.lineUserId = u, !.status = 400]
       ELSE myReq' = [myReq EXCEPT !.pc = "query", !.lineUserId = u]
  /\ UNCHANGED << ledger, lastSeq, req, pushes, slotsReq, storeCalls, rowReq,
                  lineEv >>

\* the database runs the query
MyExec ==
  /\ myReq.pc = "query"
  /\ \/ myReq' = [myReq EXCEPT !.pc = "cb", !.err = TRUE]
     \/ \E tiesAfter \in BOOLEAN :
          myReq' = [myReq EXCEPT !.pc = "cb", !.err = FALSE,
                       !.rows = ListByUser(myReq.lineUserId, tiesAfter),
                       !.seen = Len(ledger)]
  /\ UNCHANGED << ledger, lastSeq, req, pushes, slotsReq, storeCalls, rowReq,
                  lineEv >>

\* callback of the query: res.json(rows)
MyCallback ==
  /\ myReq.pc = "cb"
  /\ IF myReq.err
       THEN myReq' = [myReq EXCEPT !.pc = "done", !.status = 500, !.rows = << >>]
       ELSE myReq' = [myReq EXCEPT !.pc = "done", !.status = 200]
  /\ UNCHANGED << ledger, lastSeq, req, pushes, slotsReq, storeCalls, rowReq,
                  lineEv >>

\* ------------------------------------------------------- handleLineEvent
\* the characters String.prototype.trim removes, among those of the model
WhiteSpace == {" ", "\t", "\n"}

RECURSIVE TrimStart(_)
TrimStart(t) ==
  IF t # << >> /\ Head(t) \in WhiteSpace THEN TrimStart(Tail(t)) ELSE t

RECURSIVE TrimEnd(_)
TrimEnd(t) ==
  IF t # << >> /\ t[Len(t)] \in WhiteSpace
    THEN TrimEnd(SubSeq(t, 1, Len(t) - 1))
    ELSE t

\* trim that leaves the white space at the end
TrimStartOnly(t) == TrimStart(t)

\* event.message.text.trim()
Trim(t) == TrimEnd(TrimStart(t))

\* the three texts handleLineEvent replies with; the list reply has a line
\* with date, time and id for each row, in the order of the rows
HelpReply == [kind |-> "help", lines |-> << >>]

EmptyReply == [kind |-> "empty", lines |-> << >>]

ListReply(rows) ==
  [kind |-> "list",
   lines |-> [k \in 1..Len(rows) |->
                [date |-> rows[k].date, time |-> rows[k].time, id |-> rows[k].id]]]

\* handleLineEvent up to its first return or its db.all call.  The promise
\* it returns resolves to null, is the promise of replyMessage, or waits for
\* the query
HandleLineEvent(e) ==
  /\ lineEv.pc = "idle"
  /\ IF e.type # "message" \/ e.msgType # "text"
       THEN lineEv' = [lineEv EXCEPT !.pc = "done", !.event = e, !.result = "null"]
       ELSE IF Trim(e.text) = MY_QUEUE_TEXT
         THEN lineEv' = [lineEv EXCEPT !.pc = "query", !.event = e,
                                       !.result = "pending", !.queries = @ + 1]
         ELSE lineEv' = [lineEv EXCEPT !.pc = "done", !.event = e,
                                       !.replies = Append(@, HelpReply),
                                       !.result = "reply"]
  /\ UNCHANGED << ledger, lastSeq, req, pushes, slotsReq, storeCalls, rowReq,
                  myReq >>

\* the database runs the query
LineExec ==
  /\ lineEv.pc = "query"
  /\ \/ lineEv' = [lineEv EXCEPT !.pc = "cb", !.err = TRUE]
     \/ \E tiesAfter \in BOOLEAN :
          lineEv' = [lineEv EXCEPT !.pc = "cb", !.err = FALSE,
                        !.rows = ListByUser(lineEv.event.userId, tiesAfter),
                        !.seen = Len(ledger)]
  /\ UNCHANGED << ledger, lastSeq, req, pushes, slotsReq, storeCalls, rowReq,
                  myReq >>

\* the callback marking the rows it lists (UPDATE bookings SET status)
LineCallbackMarksRows ==
  /\ lineEv.pc = "cb"
  /\ IF lineEv.err
       THEN lineEv' = [lineEv EXCEPT !.pc = "done", !.result = "rejected"]
       ELSE lineEv' = [lineEv EXCEPT !.pc = "done", !.result = "reply",
                         !.replies = Append(@, IF Len(lineEv.rows) = 0
                                                 THEN EmptyReply
                                                 ELSE ListReply(lineEv.rows))]
  /\ ledger' = [i \in 1..Len(ledger) |->
                  IF ~lineEv.err /\ ledger[i].lineUserId = lineEv.event.userId
                    THEN [ledger[i] EXCEPT !.status = "LISTED"]
                    ELSE ledger[i]]
  /\ UNCHANGED << lastSeq, req, pushes, slotsReq, storeCalls, rowReq, myReq >>

\* callback of the query: reject on error, else one reply
LineCallback ==
  /\ lineEv.pc = "cb"
  /\ IF lineEv.err
       THEN lineEv' = [lineEv EXCEPT !.pc = "done", !.result = "rejected"]
       ELSE lineEv' = [lineEv EXCEPT !.pc = "done", !.result = "reply",
                         !.replies = Append(@, IF Len(lineEv.rows) = 0
                                                 THEN EmptyReply
                                                 ELSE ListReply(lineEv.rows))]
  /\ UNCHANGED << ledger, lastSeq, req, pushes, slotsReq, storeCalls, rowReq,
                  myReq >>

\* -------------------------------------------------------------------- Next
\* the steps of the booking requests
BookingStep ==
  \/ \E r \in Reqs, b \in Bodies : Book(r, b)
  \/ \E r \in Reqs : CountExec(r)
  \/ \E r \in Reqs : CountCallback(r)
  \/ \E r \in Reqs : InsertExec(r)
  \/ \E r \in Reqs : InsertCallback(r)

\* the booking requests and the settling of their notifications
Next ==
  \/ BookingStep
  \/ \E i \in Reqs : PushResolve(i)
  \/ \E i \in Reqs : PushReject(i)

Spec == Init /\ [][Next]_vars

\* the booking requests with a store that runs every statement submitted to
\* it and calls every callback.  The settling of a push changes pushes only,
\* which no step of a booking request reads, so the pushes are left pending.
StoreFairness ==
  \A r \in Reqs :
    /\ WF_vars(CountExec(r))
    /\ WF_vars(CountCallback(r))
    /\ WF_vars(InsertExec(r))
    /\ WF_vars(InsertCallback(r))

SpecFair == Init /\ [][BookingStep]_vars /\ StoreFairness

\* the booking requests running concurrently with a GET /api/slots request.
\* The settling of a push changes pushes only, which no step of
\* GET /api/slots reads, so the pushes are left pending here.
NextSlots ==
  \/ BookingStep
  \/ \E d \in SlotDates : GetSlots(d)
  \/ SlotsExec
  \/ SlotsCallback

SpecSlots == Init /\ [][NextSlots]_vars

\* the booking requests running concurrently with a GET /api/my-bookings
\* request; the pushes are left pending as in SpecSlots
NextMy ==
  \/ BookingStep
  \/ \E u \in MyUsers : GetMyBookings(u)
  \/ MyExec
  \/ MyCallback

SpecMy == Init /\ [][NextMy]_vars

\* the booking requests running concurrently with a webhook event
NextLine ==
  \/ BookingStep
  \/ \E e \in LineEvents : HandleLineEvent(e)
  \/ LineExec
  \/ LineCallback

SpecLine == Init /\ [][NextLine]_vars

\* the booking requests running concurrently with one of the three reading
\* operations.  A reading operation reads the ledger and writes its own
\* request only, so the reading operations are not run against each other:
\* one starts only while the other two have not been called.
NextReads ==
  \/ BookingStep
  \/ /\ myReq.pc = "idle" /\ lineEv.pc = "idle"
     /\ \/ \E d \in SlotDates : GetSlots(d)
        \/ SlotsExec
        \/ SlotsCallback
  \/ /\ slotsReq.pc = "idle" /\ lineEv.pc = "idle"
     /\ \/ \E u \in MyUsers : GetMyBookings(u)
        \/ MyExec
        \/ MyCallback
  \/ /\ slotsReq.pc = "idle" /\ myReq.pc = "idle"
     /\ \/ \E e \in LineEvents : HandleLineEvent(e)
        \/ LineExec
        \/ LineCallback

SpecReads == Init /\ [][NextReads]_vars

\* ------------------------------------------------------------ properties
Range(f) == { f[x] : x \in DOMAIN f }

Min(a, b) == IF a <= b THEN a ELSE b

\* the ledger rows request r inserted
RowsOf(r) == { i \in 1..Len(ledger) : rowReq[i] = r }

\* the pushMessage calls request r made
PushesOf(r) == { i \in 1..Len(pushes) : pushes[i].req = r }

\* the requests received so far that passed validation for key (d, t)
ReqsFor(d, t) ==
  { r \in Reqs : /\ req[r].pc # "idle"
                 /\ ~Invalid(req[r].body)
                 /\ req[r].body.date = d
                 /\ req[r].body.time = t }

\* C1: no overbooking: in every reachable state, every (date, time) pair that
\* occurs in the ledger has at most CAPACITY_PER_SLOT bookings.
C1_NoOverbooking ==
  \A i \in 1..Len(ledger) :
    CountRows(ledger[i].date, ledger[i].time) <= CAPACITY_PER_SLOT

\* C2: race outcome: once the K requests of distinct users for one (date, time)
\* key of an initially empty ledger are all answered and none of them met a
\* storage error, exactly min(K, C) of them were answered 201, all the others
\* 409, and the key holds min(K, C) bookings.
C2_RaceOutcome ==
  \A r \in Reqs :
    LET S == ReqsFor(req[r].body.date, req[r].body.time)
        K == Cardinality(S)
    IN  ( /\ r \in S
          /\ \A q \in S : req[q].pc = "done" /\ req[q].resp.status # 500
          /\ \A p, q \in S :
               p # q => req[p].body.lineUserId # req[q].body.lineUserId )
        => /\ Cardinality({ q \in S : req[q].resp.status = 201 })
                = Min(K, CAPACITY_PER_SLOT)
           /\ \A q \in S : req[q].resp.status \in {201, 409}
           /\ CountRows(req[r].body.date, req[r].body.time)
                = Min(K, CAPACITY_PER_SLOT)

\* C3: validation precedence: a received request with userId, name, date or
\* time missing or empty is answered 400 and has submitted no count query and
\* no insert, has no row in the ledger and has pushed no notification.
C3_ValidationPrecedence ==
  \A r \in Reqs :
    ( /\ req[r].pc # "idle"
      /\ \E f \in {"lineUserId", "name", "date", "time"} :
           req[r].body[f] \in {Missing, ""} )
    => /\ req[r].pc = "done"
       /\ req[r].resp.status = 400
       /\ storeCalls[r] = [count |-> 0, insert |-> 0]
       /\ RowsOf(r) = {}
       /\ PushesOf(r) = {}

\* C3 witness: a request with an empty name was answered while the ledger
\* holds a booking of another request
C3_Witness ==
  \E r \in Reqs :
    /\ req[r].pc = "done"
    /\ req[r].body.name = ""
    /\ Len(ledger) > 0

\* C4: catalog membership: every ledger row has a time of TIME_SLOTS, and an
\* answered request whose time is not in TIME_SLOTS committed no booking and
\* was not answered 201.
C4_CatalogMembership ==
  /\ \A i \in 1..Len(ledger) : ledger[i].time \in Range(TIME_SLOTS)
  /\ \A r \in Reqs :
       (req[r].pc = "done" /\ req[r].body.time \notin Range(TIME_SLOTS))
       => (RowsOf(r) = {} /\ req[r].resp.status # 201)

\* C5: availability consistency: a 200 answer of GET /api/slots has one entry
\* per catalog slot in catalog order, and for the N bookings the ledger held
\* for (date, slot) when the query ran the entry reports booked = N,
\* available = C - N and isFull = (N >= C).
C5_AvailabilityConsistency ==
  (slotsReq.pc = "done" /\ slotsReq.status = 200)
  => /\ Len(slotsReq.slots) = Len(TIME_SLOTS)
     /\ \A k \in 1..Len(TIME_SLOTS) :
          LET N == Cardinality({ i \in 1..slotsReq.seen :
                                   /\ ledger[i].date = slotsReq.date
                                   /\ ledger[i].time = TIME_SLOTS[k] })
              e == slotsReq.slots[k]
          IN  /\ e.time = TIME_SLOTS[k]
              /\ e.capacity = CAPACITY_PER_SLOT
              /\ e.booked = N
              /\ e.available = CAPACITY_PER_SLOT - N
              /\ e.isFull = (N >= CAPACITY_PER_SLOT)

\* C5 witness: an answer that reports a booked slot next to an empty one,
\* with no reservation in flight
C5_Witness ==
  /\ slotsReq.pc = "done"
  /\ slotsReq.status = 200
  /\ slotsReq.slots[1].booked >= 1
  /\ slotsReq.slots[1].isFull
  /\ slotsReq.slots[2].booked = 0
  /\ \A r \in Reqs : req[r].pc = "done"

\* C6: notification isolation: a request whose insert committed and whose
\* insert callback ran holds the 201 answer with the committed booking (id of
\* its row, status CONFIRMED), whether its push is pending, resolved or
\* rejected.
C6_NotificationIsolation ==
  /\ \A r \in Reqs :
       (RowsOf(r) # {} /\ req[r].pc = "done")
       => /\ req[r].resp.status = 201
          /\ \E j \in RowsOf(r) : req[r].resp.booking = ledger[j]
          /\ req[r].resp.booking.id > 0
          /\ req[r].resp.booking.status = "CONFIRMED"
  /\ \A i \in 1..Len(pushes) :
       /\ pushes[i].state \in {"pending", "ok", "failed"}
       /\ req[pushes[i].req].pc = "done"
       /\ req[pushes[i].req].resp.status = 201
       /\ req[pushes[i].req].resp.booking.id = pushes[i].bookingId

\* C6 witness: the push of a request answered 201 was rejected, and the push
\* of another request answered 201 is still pending
C6_Witness ==
  \E i, j \in 1..Len(pushes) :
    /\ pushes[i].state = "failed"
    /\ req[pushes[i].req].resp.status = 201
    /\ pushes[j].state = "pending"
    /\ req[pushes[j].req].resp.status = 201

\* C7: notify after commit: every push made so far names a row that is in
\* the ledger, inserted by the request that pushed, for the user the push is
\* addressed to; this holds also of a rejected push, whose row is still
\* CONFIRMED.
C7_NotifyAfterCommit ==
  \A i \in 1..Len(pushes) :
    \E j \in 1..Len(ledger) :
      /\ ledger[j].id = pushes[i].bookingId
      /\ rowReq[j] = pushes[i].req
      /\ ledger[j].lineUserId = pushes[i].to
      /\ ledger[j].date = pushes[i].date
      /\ ledger[j].time = pushes[i].time
      /\ ledger[j].status = "CONFIRMED"

\* C7 witness: a rejected push whose booking is in the ledger
C7_Witness ==
  \E i \in 1..Len(pushes) :
    /\ pushes[i].state = "failed"
    /\ \E j \in 1..Len(ledger) : ledger[j].id = pushes[i].bookingId

\* C8: SlotFull has no side effects: a request answered 409 has submitted no
\* insert, has no row in the ledger and has pushed nothing, and the step that
\* answers 409 leaves the ledger and the pushes as they were.
C8_SlotFullInv ==
  \A r \in Reqs :
    req[r].resp.status = 409
    => /\ storeCalls[r].insert = 0
       /\ RowsOf(r) = {}
       /\ PushesOf(r) = {}

C8_SlotFullStep ==
  (\E r \in Reqs : req[r].resp.status # 409 /\ req'[r].resp.status = 409)
  => (ledger' = ledger /\ pushes' = pushes /\ lastSeq' = lastSeq)

\* C8: both parts: the invariant on requests answered 409 and the frame of
\* the step that answers 409
C8_SlotFullNoSideEffects == []C8_SlotFullInv /\ [][C8_SlotFullStep]_vars

\* C8 witness: a request answered 409 on a slot that another request booked
C8_Witness ==
  \E r \in Reqs :
    /\ req[r].resp.status = 409
    /\ CountRows(req[r].body.date, req[r].body.time) >= 1

\* C9: storage failure: a request whose count query or insert failed is
\* answered 500 by the callback, has no row in the ledger and has pushed
\* nothing; no request submits the count query or the insert twice.
C9_StorageFailure ==
  \A r \in Reqs :
    /\ storeCalls[r].count <= 1
    /\ storeCalls[r].insert <= 1
    /\ (req[r].err /\ req[r].pc \in {"countCb", "insertCb", "done"})
       => /\ RowsOf(r) = {}
          /\ PushesOf(r) = {}
          /\ req[r].pc = "done" => req[r].resp.status = 500
    /\ req[r].resp.status = 500
       => (req[r].err /\ RowsOf(r) = {} /\ PushesOf(r) = {})

\* C9 witness: one request answered 500 after its insert failed, another
\* after its count query failed
C9_Witness ==
  \E p, q \in Reqs :
    /\ req[p].resp.status = 500 /\ storeCalls[p].insert = 1
    /\ req[q].resp.status = 500 /\ storeCalls[q].insert = 0

\* C10: response matches outcome: an answered request holds 201 exactly if it
\* committed one booking, a 201 is held only with the row already in the
\* ledger, a request answered 400, 409 or 500 committed none, and no request
\* commits more than one.
C10_ResponseMatchesOutcome ==
  \A r \in Reqs :
    /\ Cardinality(RowsOf(r)) <= 1
    /\ req[r].resp.status = 201 => Cardinality(RowsOf(r)) = 1
    /\ (req[r].pc = "done" /\ Cardinality(RowsOf(r)) = 1)
       => req[r].resp.status = 201
    /\ req[r].resp.status \in {400, 409, 500} => RowsOf(r) = {}
    /\ req[r].pc = "done" <=> req[r].resp.status \in {201, 400, 409, 500}

\* C10 witness: answers 201 and 500 side by side
C10_Witness ==
  \E p, q \in Reqs :
    /\ req[p].resp.status = 201 /\ Cardinality(RowsOf(p)) = 1
    /\ req[q].resp.status = 500 /\ RowsOf(q) = {}

\* C11: ordering of listMyBookings: a 200 answer of GET /api/my-bookings
\* holds each ledger row of that user the query read exactly once and no
\* other row, in ascending order of (date, time), whatever the insertion
\* order.
C11_ListMyBookingsOrdered ==
  (myReq.pc = "done" /\ myReq.status = 200)
  => LET mine == { i \in 1..myReq.seen : ledger[i].lineUserId = myReq.lineUserId }
     IN  /\ Len(myReq.rows) = Cardinality(mine)
         /\ { myReq.rows[k] : k \in 1..Len(myReq.rows) } = { ledger[i] : i \in mine }
         /\ \A k \in 1..Len(myReq.rows) - 1 :
              LET a == myReq.rows[k]
                  b == myReq.rows[k + 1]
              IN  \/ StrRank(a.date) < StrRank(b.date)
                  \/ a.date = b.date /\ StrRank(a.time) <= StrRank(b.time)

\* C11 witness: an answer whose rows were inserted in the other order: the
\* later date first
C11_Witness ==
  /\ myReq.pc = "done"
  /\ myReq.status = 200
  /\ Len(myReq.rows) = 2
  /\ myReq.rows[1].date = "2024-01-01"
  /\ myReq.rows[2].date = "2024-01-02"
  /\ myReq.rows[1].id > myReq.rows[2].id

\* C12: booking ids: the ids of the ledger rows are strictly increasing in
\* commit order (hence unique), and the id of a 201 answer is the id of the
\* row that the answered request inserted.
C12_BookingIds ==
  /\ \A i, j \in 1..Len(ledger) : i < j => ledger[i].id < ledger[j].id
  /\ \A r \in Reqs :
       req[r].resp.status = 201
       => /\ Cardinality(RowsOf(r)) = 1
          /\ \A j \in RowsOf(r) : req[r].resp.booking.id = ledger[j].id
          /\ \A j \in 1..Len(ledger) :
               ledger[j].id = req[r].resp.booking.id => rowReq[j] = r

\* C12 witness: a request is answered 201 while the row of another request,
\* committed before its own, still waits for its callback
C12_Witness ==
  \E p, q \in Reqs :
    /\ req[p].pc = "insertCb"
    /\ ~req[p].err
    /\ req[q].resp.status = 201
    /\ req[p].lastID < req[q].resp.booking.id

\* C13: append-only ledger: every step leaves the ledger as it is or adds
\* one row at its end, with status CONFIRMED, for a booking request whose
\* INSERT succeeds; the rows already there keep their place and their fields.
C13_AppendOnlyStep ==
  \/ ledger' = ledger
  \/ /\ Len(ledger') = Len(ledger) + 1
     /\ \A i \in 1..Len(ledger) : ledger'[i] = ledger[i]
     /\ ledger'[Len(ledger')].status = "CONFIRMED"
     /\ \E r \in Reqs :
          /\ req[r].pc = "insert"
          /\ req'[r].pc = "insertCb"
          /\ ~req'[r].err
          /\ ledger'[Len(ledger')].id = req'[r].lastID
          /\ ledger'[Len(ledger')].lineUserId = req[r].body.lineUserId
          /\ ledger'[Len(ledger')].date = req[r].body.date
          /\ ledger'[Len(ledger')].time = req[r].body.time

C13_AppendOnlyLedger == [][C13_AppendOnlyStep]_vars

\* C13 witness: the first booking, read by GET /api/my-bookings before the
\* second one was added, is still in the ledger as it was read
C13_Witness ==
  /\ Len(ledger) = 2
  /\ myReq.pc = "done"
  /\ myReq.seen = 1
  /\ Len(myReq.rows) = 1
  /\ myReq.rows[1] = ledger[1]
  /\ \A r \in Reqs : req[r].pc = "done"

\* C14: read operations are read-only: every step of GET /api/slots, of
\* GET /api/my-bookings and of handleLineEvent leaves the ledger and its id
\* sequence unchanged, also while booking requests are in flight.
C14_ReadStep ==
  (slotsReq' # slotsReq \/ myReq' # myReq \/ lineEv' # lineEv)
  => (ledger' = ledger /\ lastSeq' = lastSeq)

C14_ReadsAreReadOnly == [][C14_ReadStep]_vars

\* C14 witness: the chat handler has listed a booking while another booking
\* request is in flight
C14_Witness ==
  /\ lineEv.pc = "done"
  /\ Len(lineEv.replies) = 1
  /\ lineEv.replies[1].kind = "list"
  /\ \E r \in Reqs : req[r].pc \in {"count", "countCb", "insert", "insertCb"}

\* the number of rows of sequence l for key (d, t)
CountIn(l, d, t) ==
  Cardinality({ i \in 1..Len(l) : l[i].date = d /\ l[i].time = t })

\* the request r has arrived with all four required fields present
HasRequiredFields(r) ==
  /\ req[r].pc # "idle"
  /\ \A f \in {"lineUserId", "name", "date", "time"} :
       req[r].body[f] \notin {Missing, ""}

\* C15, second half as stated: every answered request (with its required
\* fields) for a slot that was full when the request arrived was answered 409.
C15_StartsAfterFull_Original ==
  \A r \in Reqs :
    (HasRequiredFields(r) /\ req[r].pc = "done" /\ req[r].fullAtStart)
    => req[r].resp.status = 409

\* C15 amended, second half: a request (with its required fields) for a slot
\* that was full when it arrived never submits an INSERT and never commits a
\* booking, and it is answered 500 if its count query failed, else 409.
C15_StartsAfterFull ==
  \A r \in Reqs :
    (HasRequiredFields(r) /\ req[r].fullAtStart)
    => /\ RowsOf(r) = {}
       /\ storeCalls[r].insert = 0
       /\ req[r].pc = "done"
          => req[r].resp.status = IF req[r].err THEN 500 ELSE 409

\* C15, first half: a slot that is full stays full in the next state
C15_MonotoneStep ==
  \A i \in 1..Len(ledger) :
    CountIn(ledger, ledger[i].date, ledger[i].time) >= CAPACITY_PER_SLOT
    => CountIn(ledger', ledger[i].date, ledger[i].time) >= CAPACITY_PER_SLOT

\* C15 amended: admission control is monotone: a full slot is full in every
\* later state, and a request that arrives after the slot became full is
\* answered 409, or 500 when its count query fails, and commits nothing.
C15_AdmissionMonotone == []C15_StartsAfterFull /\ [][C15_MonotoneStep]_vars

\* C15 witness: a request that arrived at a full slot was answered 409
C15_Witness ==
  \E p \in Reqs :
    /\ req[p].fullAtStart
    /\ req[p].resp.status = 409
    /\ CountIn(ledger, req[p].body.date, req[p].body.time) >= CAPACITY_PER_SLOT

\* no other request that has arrived asks for the (date, time) of request r
NoCompetitor(r) ==
  \A q \in Reqs \ {r} :
    \/ req[q].pc = "idle"
    \/ req[q].body.date # req[r].body.date
    \/ req[q].body.time # req[r].body.time

\* C16, first part: a request answered 409 has its own (date, time) at
\* capacity in the ledger; rows and requests of other keys do not count.
C16_RejectedOnlyByOwnKey ==
  \A r \in Reqs :
    req[r].resp.status = 409
    => CountIn(ledger, req[r].body.date, req[r].body.time) >= CAPACITY_PER_SLOT

\* C16 as stated: the first part, and an answered request with its required
\* fields, for a slot with free capacity and with no competing request on
\* its key, was answered 201.
C16_Independence_Original ==
  /\ C16_RejectedOnlyByOwnKey
  /\ \A r \in Reqs :
       ( /\ HasRequiredFields(r)
         /\ req[r].pc = "done"
         /\ ~req[r].fullAtStart
         /\ NoCompetitor(r) )
       => req[r].resp.status = 201

\* C16 amended: the first part, and such a request is answered 201 with its
\* booking committed unless its count query or its insert failed, and is
\* answered 500 then; it is never answered 409.
C16_Independence ==
  /\ C16_RejectedOnlyByOwnKey
  /\ \A r \in Reqs :
       ( /\ HasRequiredFields(r)
         /\ req[r].pc = "done"
         /\ ~req[r].fullAtStart
         /\ NoCompetitor(r) )
       => /\ req[r].resp.status = IF req[r].err THEN 500 ELSE 201
          /\ req[r].resp.status = 201 => Cardinality(RowsOf(r)) = 1

\* C16 witness: a request without competitor is answered 201 after another
\* request committed a booking for another time of the same date
C16_Witness ==
  \E r, q \in Reqs :
    /\ NoCompetitor(r)
    /\ req[r].resp.status = 201
    /\ req[q].resp.status = 201
    /\ req[q].body.date = req[r].body.date
    /\ req[q].body.time # req[r].body.time
    /\ req[q].lastID < req[r].lastID

\* C17: one notification per booking: a request whose booking is committed
\* and whose insert callback ran has made exactly one push, addressed to its
\* lineUserId and carrying the id of its row; a request answered 400, 409 or
\* 500 has made none; no request pushes twice, also after a rejected push.
C17_OneNotificationPerBooking ==
  /\ Len(pushes) <= Len(ledger)
  /\ \A r \in Reqs :
       /\ Cardinality(PushesOf(r)) <= 1
       /\ (req[r].pc = "done" /\ RowsOf(r) # {})
          => /\ Cardinality(PushesOf(r)) = 1
             /\ \A i \in PushesOf(r) :
                  /\ pushes[i].to = req[r].body.lineUserId
                  /\ \A j \in RowsOf(r) : pushes[i].bookingId = ledger[j].id
       /\ req[r].resp.status \in {400, 409, 500} => PushesOf(r) = {}
       /\ RowsOf(r) = {} => PushesOf(r) = {}

\* C17 witness: the one push of a request was rejected, and another request,
\* answered 409, made none
C17_Witness ==
  \E p, q \in Reqs :
    /\ Cardinality(PushesOf(p)) = 1
    /\ \A i \in PushesOf(p) : pushes[i].state = "failed"
    /\ req[q].resp.status = 409
    /\ PushesOf(q) = {}

\* C18: every request is answered exactly once: no request is ever sent two
\* responses, an answered request holds one of 400, 409, 500 and 201, and,
\* the store running every statement and calling every callback, every
\* request that has arrived is eventually answered.
C18_AtMostOnce ==
  \A r \in Reqs :
    /\ req[r].nresp <= 1
    /\ req[r].nresp = 1 <=> req[r].resp.status \in {400, 409, 500, 201}
    /\ req[r].nresp = 0 <=> req[r].resp.status = 0

C18_AnsweredExactlyOnce ==
  /\ []C18_AtMostOnce
  /\ \A r \in Reqs : (req[r].pc # "idle") ~> (req[r].nresp = 1)

\* C18 witness: every request has arrived and has been answered once, one of
\* them 201 and one 409
C18_Witness ==
  /\ \A r \in Reqs : req[r].nresp = 1
  /\ \E p, q \in Reqs : req[p].resp.status = 201 /\ req[q].resp.status = 409

\* the text is the command with white space before and after it
IsCommandText(t) ==
  \E i, j \in 1..Len(t) :
    /\ SubSeq(t, i, j) = MY_QUEUE_TEXT
    /\ \A k \in 1..Len(t) : (k < i \/ k > j) => t[k] \in {" ", "\t", "\n"}

\* the reply lists the rows of user u among the first n ledger rows, each
\* once, in ascending order of (date, time)
ListsBookingsOf(reply, u, n) ==
  LET mine == { i \in 1..n : ledger[i].lineUserId = u }
  IN  /\ reply.kind = IF mine = {} THEN "empty" ELSE "list"
      /\ Len(reply.lines) = Cardinality(mine)
      /\ { reply.lines[k] : k \in 1..Len(reply.lines) }
           = { [date |-> ledger[i].date, time |-> ledger[i].time,
                id |-> ledger[i].id] : i \in mine }
      /\ \A k \in 1..Len(reply.lines) - 1 :
           LET a == reply.lines[k]
               b == reply.lines[k + 1]
           IN  \/ StrRank(a.date) < StrRank(b.date)
               \/ a.date = b.date /\ StrRank(a.time) <= StrRank(b.time)

\* the parts of C19 on events that are no text message and on other texts:
\* no reply and no query for the first, one help reply and no query for the
\* second; and a command text is answered with at most one reply
C19_OtherEvents ==
  /\ Len(lineEv.replies) <= 1
  /\ lineEv.pc = "done"
     => LET e == lineEv.event
        IN  IF e.type # "message" \/ e.msgType # "text"
              THEN lineEv.replies = << >> /\ lineEv.queries = 0
              ELSE IF ~IsCommandText(e.text)
                THEN /\ lineEv.replies = << [kind |-> "help", lines |-> << >>] >>
                     /\ lineEv.queries = 0
                ELSE lineEv.queries = 1

\* C19 as stated: the parts above, and a handled command text has one reply,
\* built from the user's bookings in order or the empty-list reply.
C19_ChatCommands_Original ==
  /\ C19_OtherEvents
  /\ (lineEv.pc = "done" /\ lineEv.event.msgType = "text"
        /\ IsCommandText(lineEv.event.text))
     => /\ Len(lineEv.replies) = 1
        /\ ListsBookingsOf(lineEv.replies[1], lineEv.event.userId, lineEv.seen)

\* C19 amended: the parts above, and a handled command text has one reply,
\* built from the user's bookings in order or the empty-list reply, unless
\* the query failed: then no reply is sent and the promise is rejected.
C19_ChatCommands ==
  /\ C19_OtherEvents
  /\ (lineEv.pc = "done" /\ lineEv.event.msgType = "text"
        /\ IsCommandText(lineEv.event.text))
     => IF lineEv.err
          THEN lineEv.replies = << >> /\ lineEv.result = "rejected"
          ELSE /\ Len(lineEv.replies) = 1
               /\ ListsBookingsOf(lineEv.replies[1], lineEv.event.userId,
                                  lineEv.seen)

\* C19 witness: the command, sent with white space around it, is answered
\* with the list of a booking
C19_Witness ==
  /\ lineEv.pc = "done"
  /\ lineEv.event.text # MY_QUEUE_TEXT
  /\ Len(lineEv.replies) = 1
  /\ lineEv.replies[1].kind = "list"
  /\ Len(lineEv.replies[1].lines) >= 1

====
